---- MODULE Spec2Model ----
(***************************************************************************)
(* Movie CRUD client (src/script.js): one page holding a Cache (allMovies), *)
(* a rendered listing (movie-list), a search box and an add-movie form,     *)
(* talking to a REST collection at API_URL over fetch().                    *)
(*                                                                          *)
(* Text is modelled as a sequence of one-character strings, so that         *)
(* toLowerCase, includes, parseInt and escapeQuotes are computed character  *)
(* by character.  A year is <<n>> for the number n and <<>> for NaN (which  *)
(* JSON.stringify sends as null).                                           *)
(***************************************************************************)
EXTENDS Integers, Sequences, FiniteSets

VARIABLES
    allMovies,    \* let allMovies: the Cache
    listing,      \* movieListDiv content: [placeholder, rows]
    searchInput,  \* searchInput.value
    form,         \* the three inputs of add-movie-form: [title, genre, year],
                  \* as the last submit or form.reset() left them
    net,          \* fetch() calls whose promise has not settled yet
    server,       \* the collection behind API_URL
    nextId,       \* the next identifier the server assigns
    nmut,         \* number of POST, PUT and DELETE calls made since the
                  \* initial state
    loaded,       \* DOMContentLoaded has fired
    lastRendered, \* argument of the most recent renderMovies call
    serverVersion,\* number of changes the backend has made to its collection
    cacheVersion, \* serverVersion at which the body held by the Cache was
                  \* read; -1 before the first successful load
    okMutations,  \* mutating calls whose success handler has run
    okRefetches,  \* of the fetchMovies() calls those handlers made, the ones
                  \* that have replaced the Cache
    lastEvent     \* outcome of the most recent submit, edit click, delete
                  \* click or settled fetch() call

vars == <<allMovies, listing, searchInput, form, net, server, nextId, nmut,
          loaded, lastRendered, serverVersion, cacheVersion, okMutations,
          okRefetches, lastEvent>>

\* The bookkeeping that only the backend and the settling handlers touch.
history == <<serverVersion, cacheVersion, okMutations, okRefetches>>

---------------------------------------------------------------------------
(* Bounds of the model *)

\* Number of mutating calls (POST, PUT, DELETE) the user may cause.
MaxMutations == 1

---------------------------------------------------------------------------
(* Text values used as inputs *)

Dune  == <<"D", "u", "n", "e">>
SciFi == <<"S", "c", "i", "-", "F", "i">>
Heat  == <<"H", "e", "a", "t">>
Crime == <<"C", "r", "i", "m", "e">>
Its   == <<"I", "t", "'", "s">>
SayHi == <<"\"", "H", "i", "\"">>
ODay  == <<"O", "'", "D", "'">>
Up    == <<"U", "p">>
Im    == <<"I", "'", "m">>
It    == <<"I", "t">>
Pi    == <<"P", "i">>
SF    == <<"S", "F">>
Empty == <<>>

Txt1995 == <<"1", "9", "9", "5">>
TxtAbcd == <<"a", "b", "c", "d">>
Txt12ab == <<"1", "2", "a", "b">>

NaN == <<>>
Num(n) == <<n>>

Digits == <<"0", "1", "2", "3", "4", "5", "6", "7", "8", "9">>
UpperChars == <<"A", "B", "C", "D", "E", "F", "G", "H", "I", "J", "K", "L", "M",
                "N", "O", "P", "Q", "R", "S", "T", "U", "V", "W", "X", "Y", "Z">>
LowerChars == <<"a", "b", "c", "d", "e", "f", "g", "h", "i", "j", "k", "l", "m",
                "n", "o", "p", "q", "r", "s", "t", "u", "v", "w", "x", "y", "z">>

---------------------------------------------------------------------------
(* Pure functions of the script *)

\* String.prototype.toLowerCase, character by character.
charToLower(c) ==
    IF \E i \in 1..Len(UpperChars) : UpperChars[i] = c
    THEN LowerChars[CHOOSE i \in 1..Len(UpperChars) : UpperChars[i] = c]
    ELSE c

toLowerCase(s) == [i \in 1..Len(s) |-> charToLower(s[i])]

\* String.prototype.includes: some position where the needle starts.
includes(s, needle) ==
    \E i \in 0..(Len(s) - Len(needle)) :
        \A j \in 1..Len(needle) : s[i + j] = needle[j]

\* Value of a decimal digit character.
digitValue(c) == (CHOOSE i \in 1..Len(Digits) : Digits[i] = c) - 1

isDigit(c) == \E i \in 1..Len(Digits) : Digits[i] = c

\* Length of the longest prefix of s made of digits.
RECURSIVE digitPrefixLen(_)
digitPrefixLen(s) ==
    IF s = <<>> \/ ~isDigit(Head(s)) THEN 0 ELSE 1 + digitPrefixLen(Tail(s))

RECURSIVE digitsValue(_, _)
digitsValue(s, acc) ==
    IF s = <<>> THEN acc ELSE digitsValue(Tail(s), acc * 10 + digitValue(Head(s)))

\* parseInt(text): the leading digits as a number, NaN when there are none.
parseInt(s) ==
    LET n == digitPrefixLen(s)
    IN  IF n = 0 THEN NaN ELSE Num(digitsValue(SubSeq(s, 1, n), 0))

isNaN(y) == y = NaN

\* escapeQuotes: str.replace(/'/g, "&#39;")
RECURSIVE escapeQuotes(_)
escapeQuotes(str) ==
    IF str = <<>> THEN <<>>
    ELSE IF Head(str) = "'"
         THEN <<"&", "#", "3", "9", ";">> \o escapeQuotes(Tail(str))
         ELSE <<Head(str)>> \o escapeQuotes(Tail(str))

\* One rendered row (the template literal of renderMovies): the visible text
\* and the arguments written into the two inline onclick handlers.
movieRow(movie) ==
    LET safeTitle == escapeQuotes(movie.title)
        safeGenre == escapeQuotes(movie.genre)
    IN  [text      |-> [title |-> movie.title, year |-> movie.year,
                        genre |-> movie.genre],
         editArgs  |-> [id |-> movie.id, title |-> safeTitle,
                        year |-> movie.year, genre |-> safeGenre],
         deleteArg |-> movie.id]

\* movieListDiv before anything was rendered, and after innerHTML = ''.
EmptyListing == [placeholder |-> FALSE, rows |-> <<>>]

\* renderMovies without line 34: the rows are added to what is there.
renderMovies_keepsRows(prev, moviesToDisplay) ==
    IF Len(moviesToDisplay) = 0
    THEN [placeholder |-> TRUE, rows |-> prev.rows]
    ELSE [placeholder |-> prev.placeholder,
          rows |-> prev.rows \o
                   [i \in 1..Len(moviesToDisplay) |-> movieRow(moviesToDisplay[i])]]

\* renderMovies(moviesToDisplay), acting on the current content prev of
\* movieListDiv: clear it, then either the placeholder or one row per movie.
renderMovies(prev, moviesToDisplay) ==
    LET cleared == EmptyListing
    IN  IF Len(moviesToDisplay) = 0
        THEN [placeholder |-> TRUE, rows |-> cleared.rows]
        ELSE [placeholder |-> cleared.placeholder,
              rows |-> cleared.rows \o
                       [i \in 1..Len(moviesToDisplay) |-> movieRow(moviesToDisplay[i])]]

\* The filter callback comparing the title as stored, not lower-cased.
movieMatches_caseSensitive(movie, searchTerm) ==
    LET titleMatch == includes(movie.title, searchTerm)
        genreMatch == includes(toLowerCase(movie.genre), searchTerm)
    IN  titleMatch \/ genreMatch

\* The filter callback of the search listener.
movieMatches(movie, searchTerm) ==
    LET titleMatch == includes(toLowerCase(movie.title), searchTerm)
        genreMatch == includes(toLowerCase(movie.genre), searchTerm)
    IN  titleMatch \/ genreMatch

\* allMovies.filter(...) of the search listener.
filterMovies(movies, searchTerm) ==
    LET Keep(movie) == movieMatches(movie, searchTerm)
    IN  SelectSeq(movies, Keep)

\* What the HTML parser makes of an attribute value: &#39; becomes '.
RECURSIVE htmlDecode(_)
htmlDecode(s) ==
    IF s = <<>> THEN <<>>
    ELSE IF Len(s) >= 5 /\ SubSeq(s, 1, 5) = <<"&", "#", "3", "9", ";">>
         THEN <<"'">> \o htmlDecode(SubSeq(s, 6, Len(s)))
         ELSE <<Head(s)>> \o htmlDecode(Tail(s))

hasChar(s, c) == \E i \in 1..Len(s) : s[i] = c

\* The Edit button's onclick="editMoviePrompt(id, 'title', year, 'genre')" runs
\* only when the attribute survives: a double quote in an argument ends the
\* attribute early, a single quote (decoded from &#39;) ends the string literal.
editHandlerRuns(row) ==
    /\ ~hasChar(row.editArgs.title, "\"")
    /\ ~hasChar(row.editArgs.genre, "\"")
    /\ ~hasChar(htmlDecode(row.editArgs.title), "'")
    /\ ~hasChar(htmlDecode(row.editArgs.genre), "'")

---------------------------------------------------------------------------
(* Requests and the backend *)

NoBody == [title |-> <<>>, genre |-> <<>>, year |-> NaN]

\* The cause of a fetchMovies() call that no mutating call triggered.
NoCause == [kind |-> "none", id |-> 0, body |-> NoBody, version |-> 0,
            data |-> <<>>]

\* The cause of the fetchMovies() call made by the success handler of the
\* mutating call m: the call, as the backend answered it.
Cause(m) == [kind |-> m.kind, id |-> m.id, body |-> m.body,
             version |-> m.version, data |-> m.data]

\* A fetch(url, {method, body}) call that has just been made.  Once the
\* backend has answered (phase "resp"), ok is response.ok, data the parsed
\* body of the response (the collection for a GET, the stored Record for a
\* POST or PUT) and version the serverVersion the body was read at or the
\* change produced.  refetch marks the fetchMovies() call made by the success
\* handler of a mutating call, cause names that call.
Request(rid, kind, id, body) ==
    [rid |-> rid, kind |-> kind, id |-> id, body |-> body,
     phase |-> "req", ok |-> FALSE, data |-> <<>>, version |-> 0,
     refetch |-> FALSE, cause |-> NoCause]

\* response.ok: a status in 200..299.
responseOk(status) == status >= 200 /\ status <= 299

\* A name for the next call: the least number no call in flight bears.
freshRid(calls) ==
    CHOOSE r \in 1..(Cardinality(calls) + 1) :
        /\ \A m \in calls : m.rid # r
        /\ \A q \in 1..(r - 1) : \E m \in calls : m.rid = q

\* fetchMovies(): fetch(API_URL), added to the calls in flight `others`.
fetchMovies(others, cause) ==
    others \cup {[Request(freshRid(others), "GET", 0, NoBody)
                     EXCEPT !.refetch = (cause # NoCause), !.cause = cause]}

\* Statuses the backend answers a request it refuses with.
FailStatuses == {400, 404, 500}

\* Status of a request the backend carries out (json-server: 201 for POST).
successStatus(kind) == IF kind = "POST" THEN 201 ELSE 200

hasId(coll, id) == \E i \in 1..Len(coll) : coll[i].id = id

\* The Record the backend stores for body under identifier id.
storedRecord(id, body) ==
    [id |-> id, title |-> body.title, genre |-> body.genre, year |-> body.year]

\* The collection after the backend carried out request m.
applyRequest(coll, m) ==
    CASE m.kind = "POST" -> Append(coll, storedRecord(nextId, m.body))
      [] m.kind = "PUT" ->
           [i \in 1..Len(coll) |->
              IF coll[i].id = m.id THEN storedRecord(m.id, m.body)
              ELSE coll[i]]
      [] m.kind = "DELETE" ->
           LET Other(r) == r.id # m.id IN SelectSeq(coll, Other)
      [] OTHER -> coll

---------------------------------------------------------------------------
(* Inputs the user may give *)

InitialCollections ==
    { <<>>,
      << [id |-> 1, title |-> Up, genre |-> SF, year |-> Num(2021)] >> }

\* The form after form.reset(), and as the page first shows it.
ClearedForm == [title |-> Empty, genre |-> Empty, year |-> Empty]

\* What the form may hold when the user submits it.
FormInputs ==
    { [title |-> Im, genre |-> SF, year |-> Txt1995],
      [title |-> It, genre |-> SF, year |-> TxtAbcd],
      ClearedForm }

Queries == { Empty, <<"U">> }

\* A prompt() result: the text entered, or null when cancelled.
Cancelled == [cancel |-> TRUE, text |-> Empty]
Entered(t) == [cancel |-> FALSE, text |-> t]

TitlePrompts == { Cancelled, Entered(Pi) }
YearPrompts  == { Cancelled, Entered(Txt12ab), Entered(TxtAbcd) }
GenrePrompts == { Cancelled, Entered(SF) }

---------------------------------------------------------------------------
(* The state after the script has run *)

Init ==
    /\ allMovies = <<>>
    /\ listing = EmptyListing
    /\ searchInput = Empty
    /\ form = ClearedForm
    /\ net = {}
    /\ server \in InitialCollections
    /\ nextId = Len(server) + 1
    /\ nmut = 0
    /\ loaded = FALSE
    /\ lastRendered = <<>>
    /\ serverVersion = 0
    /\ cacheVersion = -1
    /\ okMutations = 0
    /\ okRefetches = 0
    /\ lastEvent = <<"page", "init">>

---------------------------------------------------------------------------
(* Handlers of the page *)

\* document.addEventListener('DOMContentLoaded', fetchMovies)
DOMContentLoaded ==
    /\ ~loaded
    /\ loaded' = TRUE
    /\ net' = fetchMovies(net, NoCause)
    /\ lastEvent' = <<"page", "load">>
    /\ UNCHANGED <<allMovies, listing, searchInput, form, server, nextId, nmut,
                   lastRendered, history>>

\* The search listener assigning the filtered list to allMovies.
SearchInput_shrinksCache(q) ==
    /\ loaded
    /\ searchInput' = q
    /\ LET searchTerm == toLowerCase(q)
           filteredMovies == filterMovies(allMovies, searchTerm)
       IN  /\ allMovies' = filteredMovies
           /\ listing' = renderMovies(listing, filteredMovies)
           /\ lastRendered' = filteredMovies
    /\ UNCHANGED <<form, net, server, nextId, nmut, loaded, history, lastEvent>>

\* searchInput 'input' listener, the box now holding q.
SearchInput(q) ==
    /\ loaded
    /\ searchInput' = q
    /\ LET searchTerm == toLowerCase(q)
           filteredMovies == filterMovies(allMovies, searchTerm)
       IN  /\ listing' = renderMovies(listing, filteredMovies)
           /\ lastRendered' = filteredMovies
    /\ UNCHANGED <<allMovies, form, net, server, nextId, nmut, loaded,
                   history, lastEvent>>

\* The submit listener numbering the new movie itself (allMovies.length + 1).
SubmitForm_sendsId(f) ==
    /\ loaded
    /\ form' = f
    /\ LET title == f.title
           genre == f.genre
           yearInput == f.year
       IN  IF title = Empty \/ genre = Empty \/ yearInput = Empty
           THEN /\ lastEvent' = <<"submit", "alertFill">>
                /\ UNCHANGED <<net, nmut>>
           ELSE /\ nmut < MaxMutations
                /\ LET newMovie == [id |-> Len(allMovies) + 1,
                                    title |-> title, genre |-> genre,
                                    year |-> parseInt(yearInput)]
                   IN  net' = net \cup {Request(freshRid(net), "POST", 0, newMovie)}
                /\ nmut' = nmut + 1
                /\ lastEvent' = <<"submit", "post">>
    /\ UNCHANGED <<allMovies, listing, searchInput, server, nextId, loaded,
                   lastRendered, history>>

\* The submit listener without the validation of lines 101-105.
SubmitForm_noValidation(f) ==
    /\ loaded
    /\ form' = f
    /\ nmut < MaxMutations
    /\ LET newMovie == [title |-> f.title, genre |-> f.genre,
                        year |-> parseInt(f.year)]
       IN  net' = net \cup {Request(freshRid(net), "POST", 0, newMovie)}
    /\ nmut' = nmut + 1
    /\ lastEvent' = <<"submit", "post">>
    /\ UNCHANGED <<allMovies, listing, searchInput, server, nextId, loaded,
                   lastRendered, history>>

\* form 'submit' listener, the three inputs holding f when the user submits.
SubmitForm(f) ==
    /\ loaded
    /\ form' = f
    /\ LET title == f.title
           genre == f.genre
           yearInput == f.year
       IN  IF title = Empty \/ genre = Empty \/ yearInput = Empty
           THEN /\ lastEvent' = <<"submit", "alertFill">>
                /\ UNCHANGED <<net, nmut>>
           ELSE /\ nmut < MaxMutations
                /\ LET newMovie == [title |-> title, genre |-> genre,
                                    year |-> parseInt(yearInput)]
                   IN  net' = net \cup {Request(freshRid(net), "POST", 0, newMovie)}
                /\ nmut' = nmut + 1
                /\ lastEvent' = <<"submit", "post">>
    /\ UNCHANGED <<allMovies, listing, searchInput, server, nextId, loaded,
                   lastRendered, history>>

\* updateMovie(movieId, updatedMovieData): the calls in flight after the PUT.
updateMovie(movieId, updatedMovieData) ==
    net \cup {Request(freshRid(net), "PUT", movieId, updatedMovieData)}

\* editMoviePrompt testing only the first two prompts for null at line 140.
editMoviePrompt_ignoresGenreCancel(i, newTitle, newYearStr, newGenre) ==
    /\ i \in 1..Len(listing.rows)
    /\ editHandlerRuns(listing.rows[i])
    /\ LET id == listing.rows[i].editArgs.id
       IN  IF ~newTitle.cancel /\ ~newYearStr.cancel
           THEN LET newYear == parseInt(newYearStr.text)
                IN  IF isNaN(newYear)
                    THEN /\ lastEvent' = <<"edit", "alertYear">>
                         /\ UNCHANGED <<net, nmut>>
                    ELSE /\ nmut < MaxMutations
                         /\ net' = updateMovie(id, [title |-> newTitle.text,
                                                    year |-> newYear,
                                                    genre |-> newGenre.text])
                         /\ nmut' = nmut + 1
                         /\ lastEvent' = <<"edit", "put">>
           ELSE /\ lastEvent' = <<"edit", "cancelled">>
                /\ UNCHANGED <<net, nmut>>
    /\ UNCHANGED <<allMovies, listing, searchInput, form, server, nextId,
                   loaded, lastRendered, history>>

\* Click on the Edit button of row i: editMoviePrompt with the three prompt
\* results newTitle, newYearStr, newGenre.
editMoviePrompt(i, newTitle, newYearStr, newGenre) ==
    /\ i \in 1..Len(listing.rows)
    /\ editHandlerRuns(listing.rows[i])
    /\ LET id == listing.rows[i].editArgs.id
       IN  IF ~newTitle.cancel /\ ~newYearStr.cancel /\ ~newGenre.cancel
           THEN LET newYear == parseInt(newYearStr.text)
                IN  IF isNaN(newYear)
                    THEN /\ lastEvent' = <<"edit", "alertYear">>
                         /\ UNCHANGED <<net, nmut>>
                    ELSE /\ nmut < MaxMutations
                         /\ net' = updateMovie(id, [title |-> newTitle.text,
                                                    year |-> newYear,
                                                    genre |-> newGenre.text])
                         /\ nmut' = nmut + 1
                         /\ lastEvent' = <<"edit", "put">>
           ELSE /\ lastEvent' = <<"edit", "cancelled">>
                /\ UNCHANGED <<net, nmut>>
    /\ UNCHANGED <<allMovies, listing, searchInput, form, server, nextId,
                   loaded, lastRendered, history>>

\* deleteMovie without the early return of lines 180-182.
deleteMovie_ignoresAnswer(i, confirmed) ==
    /\ i \in 1..Len(listing.rows)
    /\ nmut < MaxMutations
    /\ net' = net \cup {Request(freshRid(net), "DELETE",
                                listing.rows[i].deleteArg, NoBody)}
    /\ nmut' = nmut + 1
    /\ lastEvent' = IF confirmed THEN <<"delete", "sent">>
                    ELSE <<"delete", "declined">>
    /\ UNCHANGED <<allMovies, listing, searchInput, form, server, nextId,
                   loaded, lastRendered, history>>

\* Click on the Delete button of row i: deleteMovie, confirm() answering
\* confirmed.
deleteMovie(i, confirmed) ==
    /\ i \in 1..Len(listing.rows)
    /\ LET movieId == listing.rows[i].deleteArg
       IN  IF ~confirmed
           THEN /\ lastEvent' = <<"delete", "declined">>
                /\ UNCHANGED <<net, nmut>>
           ELSE /\ nmut < MaxMutations
                /\ net' = net \cup {Request(freshRid(net), "DELETE", movieId, NoBody)}
                /\ nmut' = nmut + 1
                /\ lastEvent' = <<"delete", "sent">>
    /\ UNCHANGED <<allMovies, listing, searchInput, form, server, nextId,
                   loaded, lastRendered, history>>

---------------------------------------------------------------------------
(* The backend and the transport *)

\* The body of the backend's answer to request m, carried out on coll.
responseBody(coll, m) ==
    CASE m.kind = "GET" -> coll
      [] m.kind = "POST" -> << storedRecord(nextId, m.body) >>
      [] m.kind = "PUT" -> << storedRecord(m.id, m.body) >>
      [] OTHER -> <<>>

\* The backend carries out request m and answers with its success status.
ServerAccept(m) ==
    /\ m \in net /\ m.phase = "req"
    /\ m.kind \in {"PUT", "DELETE"} => hasId(server, m.id)
    /\ server' = applyRequest(server, m)
    /\ nextId' = IF m.kind = "POST" THEN nextId + 1 ELSE nextId
    /\ net' = (net \ {m}) \cup
              {[m EXCEPT !.phase = "resp",
                         !.ok = responseOk(successStatus(m.kind)),
                         !.data = responseBody(server, m),
                         !.version = IF m.kind = "GET" THEN serverVersion
                                     ELSE serverVersion + 1]}
    /\ serverVersion' = IF m.kind = "GET" THEN serverVersion ELSE serverVersion + 1
    /\ UNCHANGED <<allMovies, listing, searchInput, form, nmut, loaded,
                   lastRendered, cacheVersion, okMutations, okRefetches,
                   lastEvent>>

\* The backend refuses request m with a non-success status; nothing changes
\* in the collection.
ServerRefuse(m, status) ==
    /\ m \in net /\ m.phase = "req"
    /\ status \in FailStatuses
    /\ net' = (net \ {m}) \cup
              {[m EXCEPT !.phase = "resp", !.ok = responseOk(status)]}
    /\ UNCHANGED <<allMovies, listing, searchInput, form, server, nextId, nmut,
                   loaded, lastRendered, history, lastEvent>>

\* fetch() rejects (network error), before or after the backend acted on the
\* request: the .catch of the call logs it.
FetchRejected(m) ==
    /\ m \in net
    /\ net' = net \ {m}
    /\ lastEvent' = <<m.kind, "networkError">>
    /\ UNCHANGED <<allMovies, listing, searchInput, form, server, nextId, nmut,
                   loaded, lastRendered, history>>

\* fetchMovies adding the records it does not hold yet instead of replacing
\* allMovies.
FetchMoviesSettled_patches(m) ==
    /\ m \in net /\ m.phase = "resp" /\ m.kind = "GET"
    /\ net' = net \ {m}
    /\ IF m.ok
       THEN LET IsNew(r) == ~hasId(allMovies, r.id)
                patched == allMovies \o SelectSeq(m.data, IsNew)
            IN  /\ allMovies' = patched
                /\ listing' = renderMovies(listing, patched)
                /\ lastRendered' = patched
                /\ cacheVersion' = m.version
                /\ okRefetches' = IF m.refetch THEN okRefetches + 1
                                  ELSE okRefetches
                /\ lastEvent' = <<"GET", "ok">>
       ELSE /\ lastEvent' = <<"GET", "httpError">>
            /\ UNCHANGED <<allMovies, listing, lastRendered, cacheVersion,
                           okRefetches>>
    /\ UNCHANGED <<searchInput, form, server, nextId, nmut, loaded,
                   serverVersion, okMutations>>

\* fetchMovies showing an empty list when the response is not ok.
FetchMoviesSettled_clearsOnError(m) ==
    /\ m \in net /\ m.phase = "resp" /\ m.kind = "GET"
    /\ net' = net \ {m}
    /\ IF m.ok
       THEN /\ allMovies' = m.data
            /\ listing' = renderMovies(listing, m.data)
            /\ lastRendered' = m.data
            /\ cacheVersion' = m.version
            /\ okRefetches' = IF m.refetch THEN okRefetches + 1 ELSE okRefetches
            /\ lastEvent' = <<"GET", "ok">>
       ELSE /\ allMovies' = <<>>
            /\ listing' = renderMovies(listing, <<>>)
            /\ lastRendered' = <<>>
            /\ lastEvent' = <<"GET", "httpError">>
            /\ UNCHANGED <<cacheVersion, okRefetches>>
    /\ UNCHANGED <<searchInput, form, server, nextId, nmut, loaded,
                   serverVersion, okMutations>>

\* fetchMovies skipping the replacement when the list is as long as before.
FetchMoviesSettled_keepsIfSameLength(m) ==
    /\ m \in net /\ m.phase = "resp" /\ m.kind = "GET"
    /\ net' = net \ {m}
    /\ IF m.ok
       THEN /\ IF Len(m.data) = Len(allMovies)
               THEN UNCHANGED <<allMovies, listing, lastRendered>>
               ELSE /\ allMovies' = m.data
                    /\ listing' = renderMovies(listing, m.data)
                    /\ lastRendered' = m.data
            /\ cacheVersion' = m.version
            /\ okRefetches' = IF m.refetch THEN okRefetches + 1 ELSE okRefetches
            /\ lastEvent' = <<"GET", "ok">>
       ELSE /\ lastEvent' = <<"GET", "httpError">>
            /\ UNCHANGED <<allMovies, listing, lastRendered, cacheVersion,
                           okRefetches>>
    /\ UNCHANGED <<searchInput, form, server, nextId, nmut, loaded,
                   serverVersion, okMutations>>

\* fetchMovies skipping the replacement when the body is an empty list.
FetchMoviesSettled_keepsOnEmpty(m) ==
    /\ m \in net /\ m.phase = "resp" /\ m.kind = "GET"
    /\ net' = net \ {m}
    /\ IF m.ok
       THEN /\ IF Len(m.data) = 0
               THEN UNCHANGED <<allMovies, listing, lastRendered>>
               ELSE /\ allMovies' = m.data
                    /\ listing' = renderMovies(listing, m.data)
                    /\ lastRendered' = m.data
            /\ cacheVersion' = m.version
            /\ okRefetches' = IF m.refetch THEN okRefetches + 1 ELSE okRefetches
            /\ lastEvent' = <<"GET", "ok">>
       ELSE /\ lastEvent' = <<"GET", "httpError">>
            /\ UNCHANGED <<allMovies, listing, lastRendered, cacheVersion,
                           okRefetches>>
    /\ UNCHANGED <<searchInput, form, server, nextId, nmut, loaded,
                   serverVersion, okMutations>>

\* fetchMovies storing all but the last element of the body.
FetchMoviesSettled_dropsLast(m) ==
    /\ m \in net /\ m.phase = "resp" /\ m.kind = "GET"
    /\ net' = net \ {m}
    /\ IF m.ok
       THEN LET kept == SubSeq(m.data, 1, Len(m.data) - 1)
            IN  /\ allMovies' = kept
                /\ listing' = renderMovies(listing, kept)
                /\ lastRendered' = kept
                /\ cacheVersion' = m.version
                /\ okRefetches' = IF m.refetch THEN okRefetches + 1
                                  ELSE okRefetches
                /\ lastEvent' = <<"GET", "ok">>
       ELSE /\ lastEvent' = <<"GET", "httpError">>
            /\ UNCHANGED <<allMovies, listing, lastRendered, cacheVersion,
                           okRefetches>>
    /\ UNCHANGED <<searchInput, form, server, nextId, nmut, loaded,
                   serverVersion, okMutations>>

\* fetchMovies aborting the other loadAll calls in flight once one succeeds.
FetchMoviesSettled_cancelsOthers(m) ==
    /\ m \in net /\ m.phase = "resp" /\ m.kind = "GET"
    /\ IF m.ok
       THEN /\ net' = {x \in net : x.kind # "GET"}
            /\ allMovies' = m.data
            /\ listing' = renderMovies(listing, m.data)
            /\ lastRendered' = m.data
            /\ cacheVersion' = m.version
            /\ okRefetches' = IF m.refetch THEN okRefetches + 1 ELSE okRefetches
            /\ lastEvent' = <<"GET", "ok">>
       ELSE /\ net' = net \ {m}
            /\ lastEvent' = <<"GET", "httpError">>
            /\ UNCHANGED <<allMovies, listing, lastRendered, cacheVersion,
                           okRefetches>>
    /\ UNCHANGED <<searchInput, form, server, nextId, nmut, loaded,
                   serverVersion, okMutations>>

\* fetchMovies without the renderMovies call of line 69.
FetchMoviesSettled_noRender(m) ==
    /\ m \in net /\ m.phase = "resp" /\ m.kind = "GET"
    /\ net' = net \ {m}
    /\ IF m.ok
       THEN /\ allMovies' = m.data
            /\ cacheVersion' = m.version
            /\ okRefetches' = IF m.refetch THEN okRefetches + 1 ELSE okRefetches
            /\ lastEvent' = <<"GET", "ok">>
            /\ UNCHANGED <<listing, lastRendered>>
       ELSE /\ lastEvent' = <<"GET", "httpError">>
            /\ UNCHANGED <<allMovies, listing, lastRendered, cacheVersion,
                           okRefetches>>
    /\ UNCHANGED <<searchInput, form, server, nextId, nmut, loaded,
                   serverVersion, okMutations>>

\* fetchMovies calling itself again from its .catch when the response is not
\* ok.
FetchMoviesSettled_retries(m) ==
    /\ m \in net /\ m.phase = "resp" /\ m.kind = "GET"
    /\ IF m.ok
       THEN /\ net' = net \ {m}
            /\ allMovies' = m.data
            /\ listing' = renderMovies(listing, m.data)
            /\ lastRendered' = m.data
            /\ cacheVersion' = m.version
            /\ okRefetches' = IF m.refetch THEN okRefetches + 1 ELSE okRefetches
            /\ lastEvent' = <<"GET", "ok">>
       ELSE /\ net' = fetchMovies(net \ {m}, m.cause)
            /\ lastEvent' = <<"GET", "httpError">>
            /\ UNCHANGED <<allMovies, listing, lastRendered, cacheVersion,
                           okRefetches>>
    /\ UNCHANGED <<searchInput, form, server, nextId, nmut, loaded,
                   serverVersion, okMutations>>

\* The promise chain of fetchMovies runs on response m.
FetchMoviesSettled(m) ==
    /\ m \in net /\ m.phase = "resp" /\ m.kind = "GET"
    /\ net' = net \ {m}
    /\ IF m.ok
       THEN /\ allMovies' = m.data
            /\ listing' = renderMovies(listing, m.data)
            /\ lastRendered' = m.data
            /\ cacheVersion' = m.version
            /\ okRefetches' = IF m.refetch THEN okRefetches + 1 ELSE okRefetches
            /\ lastEvent' = <<"GET", "ok">>
       ELSE /\ lastEvent' = <<"GET", "httpError">>
            /\ UNCHANGED <<allMovies, listing, lastRendered, cacheVersion,
                           okRefetches>>
    /\ UNCHANGED <<searchInput, form, server, nextId, nmut, loaded,
                   serverVersion, okMutations>>

\* The submit listener without this.reset().
CreateSettled_keepsForm(m) ==
    /\ m \in net /\ m.phase = "resp" /\ m.kind = "POST"
    /\ IF m.ok
       THEN /\ net' = fetchMovies(net \ {m}, Cause(m))
            /\ okMutations' = okMutations + 1
            /\ lastEvent' = <<"POST", "ok">>
       ELSE /\ net' = net \ {m}
            /\ lastEvent' = <<"POST", "httpError">>
            /\ UNCHANGED okMutations
    /\ UNCHANGED <<allMovies, listing, searchInput, form, server, nextId, nmut,
                   loaded, lastRendered, serverVersion, cacheVersion,
                   okRefetches>>

\* The promise chain of the submit listener runs on response m.
CreateSettled(m) ==
    /\ m \in net /\ m.phase = "resp" /\ m.kind = "POST"
    /\ IF m.ok
       THEN /\ form' = ClearedForm
            /\ net' = fetchMovies(net \ {m}, Cause(m))
            /\ okMutations' = okMutations + 1
            /\ lastEvent' = <<"POST", "ok">>
       ELSE /\ net' = net \ {m}
            /\ lastEvent' = <<"POST", "httpError">>
            /\ UNCHANGED <<form, okMutations>>
    /\ UNCHANGED <<allMovies, listing, searchInput, server, nextId, nmut,
                   loaded, lastRendered, serverVersion, cacheVersion,
                   okRefetches>>

\* The promise chain of updateMovie runs on response m.
UpdateSettled(m) ==
    /\ m \in net /\ m.phase = "resp" /\ m.kind = "PUT"
    /\ IF m.ok
       THEN /\ net' = fetchMovies(net \ {m}, Cause(m))
            /\ okMutations' = okMutations + 1
            /\ lastEvent' = <<"PUT", "ok">>
       ELSE /\ net' = net \ {m}
            /\ lastEvent' = <<"PUT", "httpError">>
            /\ UNCHANGED okMutations
    /\ UNCHANGED <<allMovies, listing, searchInput, form, server, nextId, nmut,
                   loaded, lastRendered, serverVersion, cacheVersion,
                   okRefetches>>

\* deleteMovie without the response.ok test of line 188.
DeleteSettled_refetchesAlways(m) ==
    /\ m \in net /\ m.phase = "resp" /\ m.kind = "DELETE"
    /\ net' = fetchMovies(net \ {m}, Cause(m))
    /\ okMutations' = okMutations + 1
    /\ lastEvent' = IF m.ok THEN <<"DELETE", "ok">> ELSE <<"DELETE", "httpError">>
    /\ UNCHANGED <<allMovies, listing, searchInput, form, server, nextId, nmut,
                   loaded, lastRendered, serverVersion, cacheVersion,
                   okRefetches>>

\* The promise chain of deleteMovie runs on response m.
DeleteSettled(m) ==
    /\ m \in net /\ m.phase = "resp" /\ m.kind = "DELETE"
    /\ IF m.ok
       THEN /\ net' = fetchMovies(net \ {m}, Cause(m))
            /\ okMutations' = okMutations + 1
            /\ lastEvent' = <<"DELETE", "ok">>
       ELSE /\ net' = net \ {m}
            /\ lastEvent' = <<"DELETE", "httpError">>
            /\ UNCHANGED okMutations
    /\ UNCHANGED <<allMovies, listing, searchInput, form, server, nextId, nmut,
                   loaded, lastRendered, serverVersion, cacheVersion,
                   okRefetches>>

---------------------------------------------------------------------------
(* Specification *)

Next ==
    \/ DOMContentLoaded
    \/ \E q \in Queries : SearchInput(q)
    \/ \E f \in FormInputs : SubmitForm(f)
    \/ \E i \in 1..Len(listing.rows), t \in TitlePrompts, y \in YearPrompts,
          g \in GenrePrompts : editMoviePrompt(i, t, y, g)
    \/ \E i \in 1..Len(listing.rows), c \in BOOLEAN : deleteMovie(i, c)
    \/ \E m \in net : ServerAccept(m)
    \/ \E m \in net, s \in FailStatuses : ServerRefuse(m, s)
    \/ \E m \in net : FetchRejected(m)
    \/ \E m \in net : FetchMoviesSettled(m)
    \/ \E m \in net : CreateSettled(m)
    \/ \E m \in net : UpdateSettled(m)
    \/ \E m \in net : DeleteSettled(m)

Spec == Init /\ [][Next]_vars

---------------------------------------------------------------------------
(* The same behaviours when every request is eventually answered and every *)
(* settled promise gets its handlers run by the event loop.                *)

\* The transport settles a call: the backend answers it, or fetch() rejects.
Respond ==
    \E m \in net :
        \/ ServerAccept(m)
        \/ \E st \in FailStatuses : ServerRefuse(m, st)
        \/ FetchRejected(m)

\* The event loop runs the handlers of an answered call.
RunHandlers ==
    \E m \in net :
        \/ FetchMoviesSettled(m)
        \/ CreateSettled(m)
        \/ UpdateSettled(m)
        \/ DeleteSettled(m)

SpecLive == Spec /\ WF_vars(Respond) /\ WF_vars(RunHandlers)

---------------------------------------------------------------------------
(* Rendering and filtering on their own: the page after a successful load  *)
(* of any small collection, the user then typing into the search box.      *)

\* Longest Cache the search box is tried on.
MaxCacheLen == 2

ViewRecords ==
    { [id |-> 1, title |-> Dune,  genre |-> SciFi, year |-> Num(2021)],
      [id |-> 2, title |-> Heat,  genre |-> Crime, year |-> Num(1995)],
      [id |-> 3, title |-> Its,   genre |-> ODay,  year |-> NaN],
      [id |-> 4, title |-> SayHi, genre |-> Crime, year |-> Num(1995)] }

\* Collections of at most MaxCacheLen records with distinct identifiers.
ViewCaches ==
    UNION { { c \in [1..n -> ViewRecords] :
                \A i, j \in 1..n : i # j => c[i].id # c[j].id } :
            n \in 0..MaxCacheLen }

ViewQueries ==
    { Empty, <<"d">>, <<"D">>, <<"1", "9">>, <<"C", "R", "I", "M", "E">>,
      <<"'">>, <<"-", "f">> }

\* The page once the backend has answered the initial load.
InitView ==
    /\ server \in ViewCaches
    /\ allMovies = <<>>
    /\ listing = EmptyListing
    /\ lastRendered = <<>>
    /\ searchInput = Empty
    /\ form = ClearedForm
    /\ net = {[Request(1, "GET", 0, NoBody)
                 EXCEPT !.phase = "resp", !.ok = TRUE, !.data = server]}
    /\ nextId = Cardinality(ViewRecords) + 1
    /\ nmut = 0
    /\ loaded = TRUE
    /\ serverVersion = 0
    /\ cacheVersion = -1
    /\ okMutations = 0
    /\ okRefetches = 0
    /\ lastEvent = <<"page", "load">>

NextView ==
    \/ \E m \in net : FetchMoviesSettled(m)
    \/ \E q \in ViewQueries : SearchInput(q)

SpecView == InitView /\ [][NextView]_vars

---------------------------------------------------------------------------
(* Mutating calls in quick succession: the page with one mutating call in  *)
(* flight already, the user then causing up to MaxMutations more before    *)
(* anything has settled.                                                   *)

\* The Record the collection holds when these behaviours start.
RaceRecord == [id |-> 1, title |-> Up, genre |-> SF, year |-> Num(2021)]

\* The body of the call in flight already.
RaceBody == [title |-> It, genre |-> SF, year |-> Num(1995)]

\* What the user may still submit.
RaceForms == { [title |-> Im, genre |-> SF, year |-> Txt1995] }

\* The page and the backend at the start, apart from the calls in flight.
RacePage ==
    /\ server = << RaceRecord >>
    /\ nextId = 2
    /\ searchInput = Empty
    /\ nmut = 0
    /\ loaded = TRUE
    /\ serverVersion = 0
    /\ okMutations = 0
    /\ okRefetches = 0

\* Either the form was submitted while the initial load is still in flight,
\* or the collection is loaded and shown and the user has just confirmed an
\* edit or a delete of its row.
InitRace ==
    /\ RacePage
    /\ \/ /\ allMovies = <<>>
          /\ listing = EmptyListing
          /\ lastRendered = <<>>
          /\ cacheVersion = -1
          /\ form = [title |-> It, genre |-> SF, year |-> Txt1995]
          /\ net = {Request(1, "GET", 0, NoBody),
                    Request(2, "POST", 0, RaceBody)}
          /\ lastEvent = <<"submit", "post">>
       \/ /\ allMovies = server
          /\ listing = renderMovies(EmptyListing, server)
          /\ lastRendered = server
          /\ cacheVersion = 0
          /\ form = ClearedForm
          /\ \/ /\ net = {Request(1, "PUT", 1, RaceBody)}
                /\ lastEvent = <<"edit", "put">>
             \/ /\ net = {Request(1, "DELETE", 1, NoBody)}
                /\ lastEvent = <<"delete", "sent">>

NextRace ==
    \/ \E f \in RaceForms : SubmitForm(f)
    \/ \E i \in 1..Len(listing.rows) :
          editMoviePrompt(i, Entered(Pi), Entered(Txt12ab), Entered(SF))
    \/ \E i \in 1..Len(listing.rows) : deleteMovie(i, TRUE)
    \/ \E m \in net : ServerAccept(m)
    \/ \E m \in net, st \in FailStatuses : ServerRefuse(m, st)
    \/ \E m \in net : FetchRejected(m)
    \/ \E m \in net : FetchMoviesSettled(m)
    \/ \E m \in net : CreateSettled(m)
    \/ \E m \in net : UpdateSettled(m)
    \/ \E m \in net : DeleteSettled(m)

SpecRace == InitRace /\ [][NextRace]_vars

---------------------------------------------------------------------------
(* Vocabulary of the properties *)

\* The backend answering call m: it stays in flight, now in phase "resp".
Answered(m) ==
    \E x \in net' : /\ x.rid = m.rid /\ x.kind = m.kind
                    /\ m.phase = "req" /\ x.phase = "resp"

\* The promise of call m settles in this step: one of its handlers runs and
\* the call is no longer in flight.
Settles(m) == m \in net /\ m \notin net' /\ ~Answered(m)

\* Call m settles in this step as a failure: a non-success status, or a
\* network error.
Fails(m) ==
    /\ Settles(m)
    /\ \/ m.phase = "resp" /\ ~m.ok
       \/ lastEvent' = <<m.kind, "networkError">>

\* Call m settles in this step as a success.
Succeeds(m) ==
    /\ Settles(m)
    /\ m.phase = "resp" /\ m.ok
    /\ lastEvent' # <<m.kind, "networkError">>

\* q occurs in s as a contiguous run of characters.
IsSubstring(q, s) ==
    \E i \in 1..(Len(s) - Len(q) + 1) : SubSeq(s, i, i + Len(q) - 1) = q

IsQuote(c) == c = "'" \/ c = "\""

\* Sequence a is b with some elements left out, the order kept.
RECURSIVE IsSubsequence(_, _)
IsSubsequence(a, b) ==
    IF a = <<>> THEN TRUE
    ELSE IF b = <<>> THEN FALSE
    ELSE IF Head(a) = Head(b) THEN IsSubsequence(Tail(a), Tail(b))
    ELSE IsSubsequence(a, Tail(b))

\* The calls made in this step.
Issued == {m \in net' \ net : m.phase = "req"}

\* Call g is the loadAll that a successful mutating call of kind `kind`
\* triggered, and it completes successfully in this step.
LoadAfter(g, kind) ==
    g.kind = "GET" /\ g.cause.kind = kind /\ Succeeds(g)

\* The backend read the body of loadAll g before changing its collection
\* again after the mutating call that triggered g.
ReadRightAfter(g) == g.version = g.cause.version

\* Record r holds exactly the title, genre and year of request body b.
HoldsBody(r, b) == r.title = b.title /\ r.genre = b.genre /\ r.year = b.year

---------------------------------------------------------------------------
(* Properties *)

\* C1: a submit with title and genre filled in and a year text that does not
\* parse as an integer is rejected: no POST request is issued by it.
C1_NonNumericYearRejected ==
    [][\A f \in FormInputs :
          ( /\ f.title # Empty /\ f.genre # Empty /\ f.year # Empty
            /\ isNaN(parseInt(f.year))
            /\ SubmitForm(f) )
          => ~ \E m \in net' \ net : m.kind = "POST"]_vars

\* C2 as written: once every successful mutating call has been followed by
\* its re-fetch and nothing is in flight, the Cache equals the server's
\* collection.
C2_QuiescentCacheEqualsServer ==
    (net = {} /\ okMutations > 0 /\ okRefetches = okMutations)
        => allMovies = server

\* C2 as amended: the Cache equals the server's collection whenever the body
\* it holds was read after the server's latest change.
C2_CurrentBodyEqualsServer ==
    cacheVersion = serverVersion => allMovies = server

C2_Witness ==
    /\ net = {} /\ okMutations > 0 /\ okRefetches = okMutations
    /\ cacheVersion = serverVersion
    /\ serverVersion > 0

\* C3: the Cache starts empty and changes only when a successful GET response
\* is delivered, and then to exactly the body of that response.
C3_CacheOnlyReplacedByGetBody ==
    /\ allMovies = <<>>
    /\ [][allMovies' # allMovies =>
            \E m \in net : /\ m.kind = "GET" /\ Succeeds(m)
                           /\ allMovies' = m.data]_vars

C3_Witness ==
    /\ lastEvent = <<"GET", "ok">>
    /\ searchInput # Empty
    /\ Len(allMovies) = 2
    /\ Len(listing.rows) = 1

\* C4: a loadAll that fails leaves the Cache and the listing as they were and
\* issues no request.
C4_FailedLoadChangesNothing ==
    [][\A m \in net :
          (m.kind = "GET" /\ Fails(m))
          => /\ allMovies' = allMovies
             /\ listing' = listing
             /\ net' = net \ {m}]_vars

C4_Witness ==
    /\ lastEvent = <<"GET", "httpError">>
    /\ allMovies # <<>>
    /\ ~listing.placeholder

\* C5: declining the confirmation issues no request and leaves the Cache and
\* the listing alone; a DELETE is only issued by an accepted confirmation.
C5_DeclinedDeleteDoesNothing ==
    [][ /\ (\E i \in 1..Len(listing.rows) : deleteMovie(i, FALSE))
           => /\ net' = net
              /\ allMovies' = allMovies
              /\ listing' = listing
        /\ (\E m \in net' \ net : m.kind = "DELETE" /\ m.phase = "req")
           => \E i \in 1..Len(listing.rows) : deleteMovie(i, TRUE)]_vars

C5_Witness ==
    /\ lastEvent = <<"delete", "declined">>
    /\ Len(listing.rows) > 0
    /\ nmut = 0
    /\ net = {}

\* C6: a mutating call that fails, by network error or by any non-success
\* status, is followed by no loadAll and no retry, and leaves the Cache and
\* the listing unchanged.
C6_FailedMutationChangesNothing ==
    [][\A m \in net :
          (m.kind \in {"POST", "PUT", "DELETE"} /\ Fails(m))
          => /\ net' = net \ {m}
             /\ allMovies' = allMovies
             /\ listing' = listing]_vars

C6_Witness ==
    /\ lastEvent = <<"DELETE", "httpError">>
    /\ net = {}
    /\ allMovies # <<>>

\* C7: a POST that succeeds clears the form and issues exactly one loadAll; a
\* POST that fails leaves the form as it was and issues no loadAll.
C7_CreateOutcome ==
    [][\A m \in net :
          (m.kind = "POST" /\ Settles(m))
          => IF Succeeds(m)
             THEN /\ form' = ClearedForm
                  /\ \E g \in net' \ net :
                        /\ g.kind = "GET" /\ g.phase = "req"
                        /\ net' = (net \ {m}) \cup {g}
             ELSE /\ form' = form
                  /\ net' = net \ {m}]_vars

C7_Witness ==
    /\ lastEvent = <<"POST", "ok">>
    /\ form = ClearedForm
    /\ Cardinality({g \in net : g.kind = "GET" /\ g.refetch}) = 1

\* The records of the Cache that query q selects, by the definition of C8.
C8_Expected(q) ==
    LET lq == toLowerCase(q)
        Selected(r) == \/ IsSubstring(lq, toLowerCase(r.title))
                       \/ IsSubstring(lq, toLowerCase(r.genre))
    IN  SelectSeq(allMovies, Selected)

\* C8: the search box shows exactly the records whose title or genre contains
\* the query, case-insensitively, in Cache order; an empty query shows the
\* whole Cache; the year is never matched.
C8_SearchShowsMatches ==
    [][\A q \in ViewQueries :
          SearchInput(q) =>
            LET expected == C8_Expected(q)
                shown == listing'.rows
            IN  /\ Len(shown) = Len(expected)
                /\ listing'.placeholder = (Len(expected) = 0)
                /\ \A i \in 1..Len(expected) :
                      /\ shown[i].deleteArg = expected[i].id
                      /\ shown[i].text =
                            [title |-> expected[i].title,
                             year |-> expected[i].year,
                             genre |-> expected[i].genre]
                /\ q = Empty => Len(shown) = Len(allMovies)
                /\ ( /\ Len(allMovies) = 2
                     /\ allMovies[1].title = Dune /\ allMovies[1].genre = SciFi
                     /\ allMovies[1].year = Num(2021)
                     /\ allMovies[2].title = Heat /\ allMovies[2].genre = Crime
                     /\ allMovies[2].year = Num(1995) )
                   => /\ q = <<"1", "9">> => shown = <<>>
                      /\ q = <<"d">> =>
                            /\ Len(shown) = 1
                            /\ shown[1].text.title = Dune]_vars

C8_Witness ==
    /\ searchInput = <<"C", "R", "I", "M", "E">>
    /\ Len(allMovies) = 2
    /\ allMovies[1].title = Dune
    /\ allMovies[2].title = Heat
    /\ Len(listing.rows) = 1
    /\ listing.rows[1].text.title = Heat

\* C9: no quote character of a title or genre reaches the onclick attribute
\* of a rendered row unescaped.
C9_NoQuoteReachesOnclick ==
    \A i \in 1..Len(listing.rows) :
        /\ \A k \in 1..Len(listing.rows[i].editArgs.title) :
              ~IsQuote(listing.rows[i].editArgs.title[k])
        /\ \A k \in 1..Len(listing.rows[i].editArgs.genre) :
              ~IsQuote(listing.rows[i].editArgs.genre[k])

\* C10: after renderMovies(S) the listing holds exactly |S| rows and no
\* placeholder when S is non-empty, the placeholder and no row when S is
\* empty, whatever it held before; rendering S again changes nothing.
\* (movieListDiv is EmptyListing only while nothing has been rendered.)
C10_RenderReplacesListing ==
    listing # EmptyListing =>
        /\ Len(lastRendered) = 0 =>
              (listing.placeholder /\ Len(listing.rows) = 0)
        /\ Len(lastRendered) > 0 =>
              (~listing.placeholder /\ Len(listing.rows) = Len(lastRendered))
        /\ renderMovies(listing, lastRendered) = listing

C10_Witness ==
    /\ Len(allMovies) = 2
    /\ searchInput = <<"-", "f">>
    /\ Len(lastRendered) = 1
    /\ Len(listing.rows) = 1

\* C11: an edit in which any one of the three prompts is cancelled issues no
\* request and changes neither the server's collection, the Cache nor the
\* listing, whatever the other prompts hold.
C11_CancelledEditDoesNothing ==
    [][ \/ /\ net' = net
           /\ server' = server
           /\ allMovies' = allMovies
           /\ listing' = listing
        \/ lastEvent'[1] # "edit"
        \/ ~ \E i \in 1..Len(listing.rows), t \in TitlePrompts,
                y \in YearPrompts, g \in GenrePrompts :
                /\ (t.cancel \/ y.cancel \/ g.cancel)
                /\ editMoviePrompt(i, t, y, g) ]_vars

C11_Witness ==
    /\ lastEvent = <<"edit", "cancelled">>
    /\ \E i \in 1..Len(listing.rows) : editHandlerRuns(listing.rows[i])
    /\ net = {}
    /\ nmut = 0

\* The submissions that leave a field empty.
C12_FormsWithEmptyField ==
    {f \in FormInputs : f.title = Empty \/ f.genre = Empty \/ f.year = Empty}

\* The answers to the three prompts, none cancelled, whose year text does not
\* parse as an integer.
C12_AnswersWithBadYear ==
    {a \in TitlePrompts \X YearPrompts \X GenrePrompts :
        /\ ~a[1].cancel /\ ~a[2].cancel /\ ~a[3].cancel
        /\ isNaN(parseInt(a[2].text))}

\* C12: a submit with an empty title, genre or year, and an edit whose year
\* text does not parse as an integer, raise their alert, issue no request and
\* leave the Cache unchanged.
C12_DetectedInvalidInputAborts ==
    [][ /\ \/ /\ lastEvent' = <<"submit", "alertFill">>
              /\ net' = net
              /\ allMovies' = allMovies
           \/ lastEvent'[1] # "submit"
           \/ ~ \E f \in C12_FormsWithEmptyField : SubmitForm(f)
        /\ \/ /\ lastEvent' = <<"edit", "alertYear">>
              /\ net' = net
              /\ allMovies' = allMovies
           \/ lastEvent'[1] # "edit"
           \/ ~ \E i \in 1..Len(listing.rows), a \in C12_AnswersWithBadYear :
                   editMoviePrompt(i, a[1], a[2], a[3]) ]_vars

C12_Witness ==
    /\ lastEvent = <<"edit", "alertYear">>
    /\ allMovies # <<>>
    /\ net = {}

\* C13 as written: the Cache installed by the loadAll of a successful update
\* holds a Record with the identifier and exactly the values of that update,
\* also when other mutating calls are made in quick succession.
C13_UpdateShownByItsLoad ==
    [][\A g \in net :
          LoadAfter(g, "PUT")
          => \E k \in 1..Len(allMovies') :
                /\ allMovies'[k].id = g.cause.id
                /\ HoldsBody(allMovies'[k], g.cause.body)]_vars

\* C13 as amended: the same, provided the backend did not change its
\* collection between carrying out the update and reading it for that
\* loadAll.
C13_UpdateShownByPromptLoad ==
    [][\A g \in net :
          (LoadAfter(g, "PUT") /\ ReadRightAfter(g))
          => \E k \in 1..Len(allMovies') :
                /\ allMovies'[k].id = g.cause.id
                /\ HoldsBody(allMovies'[k], g.cause.body)]_vars

C13_Witness ==
    /\ lastEvent = <<"GET", "ok">>
    /\ okRefetches = 1
    /\ cacheVersion = 1
    /\ allMovies = << [id |-> 1, title |-> It, genre |-> SF,
                       year |-> Num(1995)] >>
    /\ nmut = 1
    /\ \E m \in net : m.kind \in {"POST", "PUT", "DELETE"}

\* C14: the Cache installed by the loadAll of a successful delete holds no
\* Record with the deleted identifier.
C14_DeleteShownByItsLoad ==
    [][\A g \in net :
          LoadAfter(g, "DELETE")
          => \A k \in 1..Len(allMovies') : allMovies'[k].id # g.cause.id]_vars

C14_Witness ==
    /\ lastEvent = <<"GET", "ok">>
    /\ okMutations = 1
    /\ okRefetches = 1
    /\ allMovies # <<>>
    /\ \A k \in 1..Len(allMovies) : allMovies[k].id # RaceRecord.id
    /\ \E m \in net : m.kind = "POST"

\* C15 as written: the Cache installed by the loadAll of a successful create
\* holds a Record with the title, genre and year of that create under the
\* identifier the backend assigned.
C15_CreateShownByItsLoad ==
    [][\A g \in net :
          LoadAfter(g, "POST")
          => \E k \in 1..Len(allMovies') :
                /\ allMovies'[k].id = g.cause.data[1].id
                /\ HoldsBody(allMovies'[k], g.cause.body)]_vars

\* C15 as amended: the same, provided the backend did not change its
\* collection between carrying out the create and reading it for that
\* loadAll.
C15_CreateShownByPromptLoad ==
    [][\A g \in net :
          (LoadAfter(g, "POST") /\ ReadRightAfter(g))
          => \E k \in 1..Len(allMovies') :
                /\ allMovies'[k].id = g.cause.data[1].id
                /\ HoldsBody(allMovies'[k], g.cause.body)]_vars

C15_Witness ==
    /\ lastEvent = <<"GET", "ok">>
    /\ okRefetches = 1
    /\ cacheVersion = 1
    /\ Len(allMovies) = 2
    /\ allMovies[2] = [id |-> 2, title |-> It, genre |-> SF,
                       year |-> Num(1995)]
    /\ nmut = 1
    /\ \E m \in net : m.kind \in {"PUT", "DELETE"}

\* C16: the body of every POST and PUT the client issues holds exactly the
\* fields title, genre and year, and the identifier in the URL of every PUT
\* and DELETE it issues is that of a Record of the Cache, which a successful
\* GET returned.
C16_IdentifiersComeFromServer ==
    [][\A m \in net' \ net :
          m.phase = "req" =>
            /\ m.kind \in {"POST", "PUT"} =>
                  DOMAIN m.body = {"title", "genre", "year"}
            /\ m.kind \in {"PUT", "DELETE"} =>
                  /\ cacheVersion >= 0
                  /\ \E k \in 1..Len(allMovies) : allMovies[k].id = m.id]_vars

C16_Witness ==
    \E m \in net :
        /\ m.kind = "PUT" /\ m.phase = "req"
        /\ DOMAIN m.body = {"title", "genre", "year"}
        /\ cacheVersion >= 0
        /\ \E k \in 1..Len(allMovies) : allMovies[k].id = m.id

\* C17: a loadAll that completes successfully replaces the Cache by its body
\* and renders it, whichever other loadAll calls are in flight and whenever
\* they were issued, and leaves those others in flight; so the Cache is the
\* body of the loadAll delivered last.
C17_EveryLoadInstallsItsBody ==
    [][\A m \in net :
          (m.kind = "GET" /\ Succeeds(m))
          => /\ allMovies' = m.data
             /\ listing' = renderMovies(listing, m.data)
             /\ lastRendered' = m.data
             /\ cacheVersion' = m.version
             /\ net' = net \ {m}]_vars

\* The initial load, issued first, was delivered after the re-fetch.
C17_Witness ==
    /\ lastEvent = <<"GET", "ok">>
    /\ okMutations = 1
    /\ okRefetches = 1
    /\ serverVersion = 1
    /\ cacheVersion = 0
    /\ allMovies # server
    /\ listing = renderMovies(listing, allMovies)
    /\ net = {}

\* C18: in every state the listing is the rendering of the whole Cache or of
\* the Cache filtered by the text of the search box (before the first render
\* movieListDiv is empty, and so is the Cache); its rows are those of Records
\* of the Cache, in Cache order.
C18_ListingShowsCacheOrFilter ==
    /\ \/ listing = EmptyListing /\ allMovies = <<>> /\ cacheVersion = -1
       \/ listing = renderMovies(EmptyListing, allMovies)
       \/ listing = renderMovies(EmptyListing,
                                 filterMovies(allMovies, toLowerCase(searchInput)))
    /\ IsSubsequence(listing.rows,
                     [k \in 1..Len(allMovies) |-> movieRow(allMovies[k])])

\* A load completed while the search box held a query: the whole Cache is
\* shown, more than the query selects.
C18_Witness ==
    /\ searchInput # Empty
    /\ Len(allMovies) = 2
    /\ listing = renderMovies(EmptyListing, allMovies)
    /\ listing # renderMovies(EmptyListing,
                              filterMovies(allMovies, toLowerCase(searchInput)))

\* C19: a step issues at most one request; a mutating request is issued by a
\* user action only; a GET is issued either by the page load or by the
\* success of a mutating call, one per call; a loadAll that completes and a
\* mutating call that fails issue nothing.  With every request answered, the
\* calls in flight die out for good.
C19_RequestsDieOut ==
    /\ [][ /\ Cardinality(Issued) <= 1
           /\ \A g \in Issued :
                 IF g.kind = "GET"
                 THEN \/ ~loaded /\ loaded' /\ g.cause = NoCause
                      \/ \E m \in net : /\ m.kind \in {"POST", "PUT", "DELETE"}
                                        /\ Succeeds(m)
                                        /\ g.cause = Cause(m)
                 ELSE /\ nmut' = nmut + 1
                      /\ \A m \in net : m \in net'
           /\ \A m \in net :
                 (Settles(m) /\ (m.kind = "GET" \/ Fails(m))) => Issued = {} ]_vars
    /\ <>[](net = {})

C19_Witness ==
    /\ net = {}
    /\ nmut = MaxMutations
    /\ okMutations = MaxMutations
    /\ okRefetches = MaxMutations
    /\ lastEvent = <<"GET", "ok">>

====
